---------------------------- MODULE Spec2Model ----------------------------
(***************************************************************************)
(* A model of the bitcoin-quantity crate (src/src/lib.rs): the value type  *)
(* BitcoinQuantity(u64), its constructors, accessors, Add/Sub, Display,    *)
(* FromStr and the serde Serialize/Deserialize implementations.            *)
(*                                                                         *)
(* u64 amounts and f64 significands do not fit TLC's 32-bit integers, so   *)
(* natural numbers are kept as little-endian sequences of 15-bit limbs     *)
(* (Big...), and an f64 is kept as the exact value it denotes              *)
(* (sign, odd significand, binary exponent), with every f64 operation      *)
(* rounding to the nearest representable value, ties to even, as IEEE 754  *)
(* binary64 does.                                                          *)
(***************************************************************************)
EXTENDS Integers, Sequences, FiniteSets, TLC

(***************************************************************************)
(* The arithmetic below is written as one recursive operator, Lib, so that *)
(* the call graph TLC unfolds for its statistics stays as small as the     *)
(* text: an operator X that uses other operators is the arm "X" of Lib,    *)
(* defined as XImpl, and X(...) calls that arm.                            *)
(***************************************************************************)
RECURSIVE Lib(_, _, _, _, _)

BigAdd(a, b) == Lib("BigAdd", a, b, 0, 0)
BigSub(a, b) == Lib("BigSub", a, b, 0, 0)
BigMulSmall(a, k, c) == Lib("BigMulSmall", a, k, c, 0)
BigMulFrom(a, b, j) == Lib("BigMulFrom", a, b, j, 0)
BigMul(a, b) == Lib("BigMul", a, b, 0, 0)
BigDivSmallFrom(a, k, i, r) == Lib("BigDivSmallFrom", a, k, i, r)
BigDivSmall(a, k) == Lib("BigDivSmall", a, k, 0, 0)
BigModSmall(a, k) == Lib("BigModSmall", a, k, 0, 0)
BigShl(a, n) == Lib("BigShl", a, n, 0, 0)
BigShr(a, n) == Lib("BigShr", a, n, 0, 0)
BigDivLimb(r, d) == Lib("BigDivLimb", r, d, 0, 0)
BigDivModFrom(n, d, i, r) == Lib("BigDivModFrom", n, d, i, r)
BigDivMod(n, d) == Lib("BigDivMod", n, d, 0, 0)
BigPow10(n) == Lib("BigPow10", n, 0, 0, 0)
BigPow2(n) == Lib("BigPow2", n, 0, 0, 0)
BigFromDigits(ds) == Lib("BigFromDigits", ds, 0, 0, 0)
BigToDigits(a) == Lib("BigToDigits", a, 0, 0, 0)
MkF64(neg, k, q) == Lib("MkF64", neg, k, q, 0)
RatLog2(n, d) == Lib("RatLog2", n, d, 0, 0)
RoundHalfEven(n, d) == Lib("RoundHalfEven", n, d, 0, 0)
RoundRat(neg, n, d, x) == Lib("RoundRat", neg, n, d, x)
F64Mul(a, b) == Lib("F64Mul", a, b, 0, 0)
F64Div(a, b) == Lib("F64Div", a, b, 0, 0)
F64FromU64(n) == Lib("F64FromU64", n, 0, 0, 0)
F64Round(f) == Lib("F64Round", f, 0, 0, 0)
AsU64(f) == Lib("AsU64", f, 0, 0, 0)
StripLeadingZeros(ds) == Lib("StripLeadingZeros", ds, 0, 0, 0)
SmallVal(z, k) == Lib("SmallVal", z, k, 0, 0)
SmallFromDigits(ds) == Lib("SmallFromDigits", ds, 0, 0, 0)
DecimalToF64(neg, ds, x) == Lib("DecimalToF64", neg, ds, x, 0)
ParseF64(text) == Lib("ParseF64", text, 0, 0, 0)
ParseU64(text) == Lib("ParseU64", text, 0, 0, 0)
U64ToString(n) == Lib("U64ToString", n, 0, 0, 0)
ShortestAt(f, p) == Lib("ShortestAt", f, p, 0, 0)
ShortestFrom(f, lo, hi) == Lib("ShortestFrom", f, lo, hi, 0)
ShortestDecimal(f) == Lib("ShortestDecimal", f, 0, 0, 0)
Positional(c, p) == Lib("Positional", c, p, 0, 0)
DisplayF64(f) == Lib("DisplayF64", f, 0, 0, 0)

(***************************************************************************)
(* Natural numbers of any size: <<l1, l2, ...>> denotes                    *)
(* l1 + l2*Base + l3*Base^2 + ..., with no zero limb at the high end.      *)
(* Carries are looked ahead rather than rippled, which keeps TLC's         *)
(* evaluation of these definitions shallow.                                *)
(***************************************************************************)
Base == 2^15

Max(a, b) == IF a >= b THEN a ELSE b

MaxOf(S) == CHOOSE x \in S : \A y \in S : y <= x

BigNorm(a) ==
  LET nz == {i \in 1..Len(a) : a[i] # 0}
  IN  IF nz = {} THEN <<>> ELSE SubSeq(a, 1, MaxOf(nz))

\* 0 <= n < 2^31
BigFromInt(n) == BigNorm(<<n % Base, (n \div Base) % Base, n \div (Base * Base)>>)

Limb(a, i) == IF i <= Len(a) THEN a[i] ELSE 0

\* a + b: limb i receives a carry when the nearest lower limb pair that does
\* not just pass a carry on (its sum is not Base - 1) overflows
BigAddImpl(a, b) ==
  LET n  == Max(Len(a), Len(b))
      s  == [i \in 1..(n + 1) |-> Limb(a, i) + Limb(b, i)]
      cy == [i \in 1..(n + 1) |->
               LET low == {j \in 1..(i - 1) : s[j] # Base - 1}
               IN  IF low # {} /\ s[MaxOf(low)] >= Base THEN 1 ELSE 0]
  IN  BigNorm([i \in 1..(n + 1) |-> (s[i] + cy[i]) % Base])

\* a - b for a >= b, with the borrows looked ahead in the same way
BigSubImpl(a, b) ==
  LET d  == [i \in 1..Len(a) |-> Limb(a, i) - Limb(b, i)]
      bw == [i \in 1..Len(a) |->
               LET low == {j \in 1..(i - 1) : d[j] # 0}
               IN  IF low # {} /\ d[MaxOf(low)] < 0 THEN 1 ELSE 0]
  IN  BigNorm([i \in 1..Len(a) |-> (d[i] - bw[i] + Base) % Base])

\* -1, 0, 1 as a < b, a = b, a > b
BigCmp(a, b) ==
  IF Len(a) < Len(b) THEN -1
  ELSE IF Len(a) > Len(b) THEN 1
  ELSE LET df == {i \in 1..Len(a) : a[i] # b[i]}
       IN  IF df = {} THEN 0
           ELSE IF a[MaxOf(df)] < b[MaxOf(df)] THEN -1 ELSE 1

BigLe(a, b) == BigCmp(a, b) <= 0

BigLt(a, b) == BigCmp(a, b) < 0

\* a * k + c for 0 <= k <= Base, 0 <= c < Base: the low halves of the limb
\* products, plus their high halves one limb up
BigMulSmallImpl(a, k, c) ==
  BigAdd([i \in 1..Len(a) |-> (a[i] * k) % Base],
         <<c>> \o [i \in 1..Len(a) |-> (a[i] * k) \div Base])

\* a * b, one limb of b at a time
BigMulFromImpl(a, b, j) ==
  IF j > Len(b) THEN <<>>
  ELSE LET rest == BigMulFrom(a, b, j + 1)
       IN  IF rest = <<>> THEN BigMulSmall(a, b[j], 0)
           ELSE BigAdd(BigMulSmall(a, b[j], 0), <<0>> \o rest)

BigMulImpl(a, b) ==
  IF a = <<>> \/ b = <<>> THEN <<>>
  ELSE IF Len(a) >= Len(b) THEN BigMulFrom(a, b, 1) ELSE BigMulFrom(b, a, 1)

\* floor(a / k) and a mod k for 0 < k <= Base; the limbs are taken from the top
BigDivSmallFromImpl(a, k, i, r) ==
  IF i = 0 THEN [q |-> <<>>, r |-> r]
  ELSE LET t    == r * Base + a[i]
           rest == BigDivSmallFrom(a, k, i - 1, t % k)
       IN  [q |-> rest.q \o <<t \div k>>, r |-> rest.r]

BigDivSmallImpl(a, k) == BigNorm(BigDivSmallFrom(a, k, Len(a), 0).q)

BigModSmallImpl(a, k) == BigDivSmallFrom(a, k, Len(a), 0).r

\* a * 2^n
BigShlImpl(a, n) ==
  IF a = <<>> THEN <<>>
  ELSE [i \in 1..(n \div 15) |-> 0] \o BigMulSmall(a, 2^(n % 15), 0)

\* floor(a / 2^n)
BigShrImpl(a, n) ==
  LET w == n \div 15
      s == n % 15
  IN  BigNorm([i \in 1..(Len(a) - w) |->
                 Limb(a, i + w) \div 2^s + (Limb(a, i + w + 1) % 2^s) * 2^(15 - s)])

\* the number of bits of a: 0 for 0, else floor(log2 a) + 1
BigBitLen(a) ==
  IF a = <<>> THEN 0
  ELSE 15 * (Len(a) - 1) + (CHOOSE b \in 1..15 : 2^(b - 1) <= a[Len(a)] /\ a[Len(a)] < 2^b)

BigBit(a, i) == (Limb(a, i \div 15 + 1) \div 2^(i % 15)) % 2

BigIsOdd(a) == a # <<>> /\ a[1] % 2 = 1

\* the number of trailing zero bits of a > 0
BigTrailingZeros(a) ==
  LET i == CHOOSE j \in 1..Len(a) : a[j] # 0 /\ \A l \in 1..(j - 1) : a[l] = 0
  IN  15 * (i - 1) + (CHOOSE t \in 0..14 : a[i] % 2^t = 0 /\ a[i] % 2^(t + 1) # 0)

\* whether 2^n divides a
BigLowZero(a, n) == a = <<>> \/ BigTrailingZeros(a) >= n

\* Long division by a divisor of any size (Knuth's algorithm D).  With the
\* divisor's top limb at least Base / 2, the quotient limb estimated from the
\* top two limbs of the remainder is the true one or up to 2 above it.
BigDivLimbImpl(r, d) ==
  IF BigLt(r, d) THEN [q |-> 0, r |-> r]
  ELSE LET top == Limb(r, Len(d) + 1) * Base + Limb(r, Len(d))
           est == IF top \div d[Len(d)] >= Base THEN Base - 1 ELSE top \div d[Len(d)]
           q   == MaxOf({t \in Max(est - 2, 0)..est : BigLe(BigMulSmall(d, t, 0), r)})
       IN  [q |-> q, r |-> BigSub(r, BigMulSmall(d, q, 0))]

\* the limbs of n from limb i down, r the remainder of the limbs above
BigDivModFromImpl(n, d, i, r) ==
  IF i = 0 THEN [q |-> <<>>, r |-> r]
  ELSE LET step == BigDivLimb(BigNorm(<<n[i]>> \o r), d)
       IN  IF step.q < 0 THEN step
           ELSE LET rest == BigDivModFrom(n, d, i - 1, step.r)
                IN  [q |-> rest.q \o <<step.q>>, r |-> rest.r]

\* floor(n / d) and n mod d for d > 0
BigDivModImpl(n, d) ==
  LET sh == 15 * Len(d) - BigBitLen(d)
      ns == BigShl(n, sh)
      qr == BigDivModFrom(ns, BigShl(d, sh), Len(ns), <<>>)
  IN  [q |-> BigNorm(qr.q), r |-> BigShr(qr.r, sh)]

\* 10^n, by squaring
BigPow10Impl(n) ==
  IF n = 0 THEN <<1>>
  ELSE LET h  == BigPow10(n \div 2)
           h2 == BigMul(h, h)
       IN  IF n % 2 = 0 THEN h2 ELSE BigMulSmall(h2, 10, 0)

BigPow2Impl(n) == BigShl(<<1>>, n)

\* decimal digits (numbers 0..9, most significant first) to a natural and
\* back; long digit strings are split in halves, resp. taken four at a time
BigFromDigitsImpl(ds) ==
  IF ds = <<>> THEN <<>>
  ELSE IF Len(ds) = 1 THEN BigFromInt(ds[1])
  ELSE LET h  == Len(ds) \div 2
           hi == BigFromDigits(SubSeq(ds, 1, h))
           lo == BigFromDigits(SubSeq(ds, h + 1, Len(ds)))
       IN  BigAdd(BigMul(hi, BigPow10(Len(ds) - h)), lo)

BigToDigitsImpl(a) ==
  IF a = <<>> THEN <<>>
  ELSE LET q == BigDivSmall(a, 10000)
           r == BigModSmall(a, 10000)
       IN  IF q = <<>>
           THEN (IF r >= 1000 THEN <<r \div 1000>> ELSE <<>>) \o
                (IF r >= 100 THEN <<(r \div 100) % 10>> ELSE <<>>) \o
                (IF r >= 10 THEN <<(r \div 10) % 10>> ELSE <<>>) \o <<r % 10>>
           ELSE BigToDigits(q) \o
                <<r \div 1000, (r \div 100) % 10, (r \div 10) % 10, r % 10>>

(***************************************************************************)
(* f64.  A value is [cls, neg, m, e]: cls "finite" denotes (-1)^neg * m *  *)
(* 2^e with m odd (or m = 0 and e = 0), so that two records are equal      *)
(* exactly when they are the same number with the same sign.               *)
(***************************************************************************)
F64MantBits == 53

F64MinQuantum == -1074

F64MaxExp == 1024

F64NaN == [cls |-> "nan", neg |-> FALSE, m |-> <<>>, e |-> 0]

F64Inf(neg) == [cls |-> "inf", neg |-> neg, m |-> <<>>, e |-> 0]

F64Zero(neg) == [cls |-> "finite", neg |-> neg, m |-> <<>>, e |-> 0]

\* (-1)^neg * k * 2^q as a record, or infinity when it is 2^1024 or more
MkF64Impl(neg, k, q) ==
  IF k = <<>> THEN F64Zero(neg)
  ELSE IF BigBitLen(k) + q > F64MaxExp THEN F64Inf(neg)
  ELSE LET tz == BigTrailingZeros(k)
       IN  [cls |-> "finite", neg |-> neg, m |-> BigShr(k, tz), e |-> q + tz]

\* floor(log2(n / d)) for n, d > 0
RatLog2Impl(n, d) ==
  LET bl == BigBitLen(n) - BigBitLen(d)
  IN  IF bl >= 0
      THEN (IF BigLe(BigShl(d, bl), n) THEN bl ELSE bl - 1)
      ELSE (IF BigLe(d, BigShl(n, -bl)) THEN bl ELSE bl - 1)

\* the integer nearest to n / d, ties to the even one
RoundHalfEvenImpl(n, d) ==
  LET qr  == BigDivMod(n, d)
      cmp == BigCmp(BigMulSmall(qr.r, 2, 0), d)
  IN  IF cmp > 0 \/ (cmp = 0 /\ BigIsOdd(qr.q))
      THEN BigAdd(qr.q, <<1>>)
      ELSE qr.q

\* The f64 nearest to (-1)^neg * (n / d) * 2^x, ties to even: 53 significant
\* bits, fewer below 2^-1022 (subnormals), infinity from 2^1024.
RoundRatImpl(neg, n, d, x) ==
  IF n = <<>> THEN F64Zero(neg)
  ELSE LET E  == RatLog2(n, d) + x
           q  == Max(E - (F64MantBits - 1), F64MinQuantum)
           s  == x - q
           k  == IF s >= 0 THEN RoundHalfEven(BigShl(n, s), d)
                 ELSE RoundHalfEven(n, BigShl(d, -s))
       IN  MkF64(neg, k, q)

\* a * b
F64MulImpl(a, b) ==
  IF a.cls = "nan" \/ b.cls = "nan" THEN F64NaN
  ELSE IF a.cls = "inf" \/ b.cls = "inf"
  THEN (IF (a.cls = "finite" /\ a.m = <<>>) \/ (b.cls = "finite" /\ b.m = <<>>)
        THEN F64NaN ELSE F64Inf(a.neg # b.neg))
  ELSE RoundRat(a.neg # b.neg, BigMul(a.m, b.m), <<1>>, a.e + b.e)

\* a / b
F64DivImpl(a, b) ==
  IF a.cls = "nan" \/ b.cls = "nan" THEN F64NaN
  ELSE IF a.cls = "inf"
  THEN (IF b.cls = "inf" THEN F64NaN ELSE F64Inf(a.neg # b.neg))
  ELSE IF b.cls = "inf" THEN F64Zero(a.neg # b.neg)
  ELSE IF b.m = <<>>
  THEN (IF a.m = <<>> THEN F64NaN ELSE F64Inf(a.neg # b.neg))
  ELSE RoundRat(a.neg # b.neg, a.m, b.m, a.e - b.e)

\* n as f64 (a u64 above 2^53 is rounded)
F64FromU64Impl(n) == RoundRat(FALSE, n, <<1>>, 0)

\* f64::round: the nearest integer, halfway cases away from zero
F64RoundImpl(f) ==
  IF f.cls # "finite" \/ f.e >= 0 THEN f
  ELSE LET q    == BigShr(f.m, -f.e)
           frac == BigSub(f.m, BigShl(q, -f.e))
       IN  IF BigLe(BigPow2(-f.e - 1), frac)
           THEN MkF64(f.neg, BigAdd(q, <<1>>), 0)
           ELSE MkF64(f.neg, q, 0)

U64Bits == 64

U64Max == BigSub(BigPow2(U64Bits), <<1>>)

\* `as u64`: toward zero, saturating at 0 and u64::MAX, NaN to 0
AsU64Impl(f) ==
  IF f.cls = "nan" \/ f.neg THEN <<>>
  ELSE IF f.cls = "inf" THEN U64Max
  ELSE IF f.m = <<>> THEN <<>>
  ELSE IF BigBitLen(f.m) + f.e > U64Bits THEN U64Max
  ELSE IF f.e >= 0 THEN BigShl(f.m, f.e)
  ELSE BigShr(f.m, -f.e)

(***************************************************************************)
(* Text is a sequence of one-character strings.                            *)
(***************************************************************************)
Digits == <<"0", "1", "2", "3", "4", "5", "6", "7", "8", "9">>

IsDigit(c) == \E d \in 1..10 : Digits[d] = c

DigitVal(c) == (CHOOSE d \in 1..10 : Digits[d] = c) - 1

AllDigits(t) == \A i \in 1..Len(t) : IsDigit(t[i])

DigitVals(t) == [i \in 1..Len(t) |-> DigitVal(t[i])]

DigitChars(ds) == [i \in 1..Len(ds) |-> Digits[ds[i] + 1]]

\* ASCII lower case of the letters the float grammar names
Lower(c) ==
  CASE c = "E" -> "e" [] c = "I" -> "i" [] c = "N" -> "n" [] c = "F" -> "f"
    [] c = "A" -> "a" [] c = "T" -> "t" [] c = "Y" -> "y" [] OTHER -> c

LowerText(t) == [i \in 1..Len(t) |-> Lower(t[i])]

\* the first position of t holding one of cs, or 0
IndexOf(t, cs) ==
  IF \E i \in 1..Len(t) : t[i] \in cs
  THEN CHOOSE i \in 1..Len(t) : t[i] \in cs /\ \A j \in 1..(i - 1) : t[j] \notin cs
  ELSE 0

StripLeadingZerosImpl(ds) ==
  IF ds # <<>> /\ ds[1] = 0 THEN StripLeadingZeros(Tail(ds)) ELSE ds

\* a decimal exponent's digits as a number, capped at 9999 (beyond which every
\* f64 is already 0 or infinite)
SmallValImpl(z, k) == IF k = 0 THEN 0 ELSE SmallVal(z, k - 1) * 10 + z[k]

SmallFromDigitsImpl(ds) ==
  LET z == StripLeadingZeros(ds)
  IN  IF Len(z) > 4 THEN 9999 ELSE SmallVal(z, Len(z))

\* the f64 nearest to (-1)^neg * D * 10^x for the decimal digits ds of D
DecimalToF64Impl(neg, ds, x) ==
  LET z == StripLeadingZeros(ds)
  IN  IF z = <<>> THEN F64Zero(neg)
      ELSE IF Len(z) + x > 310 THEN F64Inf(neg)
      ELSE IF Len(z) + x < -330 THEN F64Zero(neg)
      ELSE IF x >= 0
      THEN RoundRat(neg, BigMul(BigFromDigits(z), BigPow10(x)), <<1>>, 0)
      ELSE RoundRat(neg, BigFromDigits(z), BigPow10(-x), 0)

(***************************************************************************)
(* <f64 as FromStr>::from_str, the parser `string.parse()` resolves to in  *)
(* from_str (its result is handed to from_bitcoin(btc: f64)):              *)
(*   Float  ::= Sign? ( 'inf' | 'infinity' | 'nan' | Number )              *)
(*   Number ::= ( Digit+ | Digit+ '.' Digit* | Digit* '.' Digit+ ) Exp?    *)
(*   Exp    ::= 'e' Sign? Digit+                                           *)
(* in any letter case; the value is the nearest f64.                       *)
(***************************************************************************)
ParseF64Impl(text) ==
  LET signed == text # <<>> /\ text[1] \in {"+", "-"}
      neg    == text # <<>> /\ text[1] = "-"
      body   == LowerText(IF signed THEN Tail(text) ELSE text)
      epos   == IndexOf(body, {"e"})
      mant   == IF epos = 0 THEN body ELSE SubSeq(body, 1, epos - 1)
      exp    == IF epos = 0 THEN <<>> ELSE SubSeq(body, epos + 1, Len(body))
      esign  == exp # <<>> /\ exp[1] \in {"+", "-"}
      edig   == IF esign THEN Tail(exp) ELSE exp
      dot    == IndexOf(mant, {"."})
      int    == IF dot = 0 THEN mant ELSE SubSeq(mant, 1, dot - 1)
      frac   == IF dot = 0 THEN <<>> ELSE SubSeq(mant, dot + 1, Len(mant))
      e10    == IF epos = 0 THEN 0
                ELSE IF exp[1] = "-" THEN -SmallFromDigits(DigitVals(edig))
                ELSE SmallFromDigits(DigitVals(edig))
  IN  IF body = <<"i", "n", "f">> \/ body = <<"i", "n", "f", "i", "n", "i", "t", "y">>
      THEN [ok |-> TRUE, val |-> F64Inf(neg)]
      ELSE IF body = <<"n", "a", "n">>
      THEN [ok |-> TRUE, val |-> F64NaN]
      ELSE IF /\ AllDigits(int) /\ AllDigits(frac)
              /\ Len(int) + Len(frac) > 0
              /\ (epos # 0 => edig # <<>> /\ AllDigits(edig))
      THEN [ok |-> TRUE,
            val |-> DecimalToF64(neg, DigitVals(int \o frac), e10 - Len(frac))]
      ELSE [ok |-> FALSE]

(***************************************************************************)
(* <u64 as FromStr>::from_str, which `v.parse()` resolves to in visit_str  *)
(* (its result is mapped through from_satoshi(sats: u64)): an optional     *)
(* '+', then one or more digits, and a value of at most u64::MAX.          *)
(***************************************************************************)
ParseU64Impl(text) ==
  LET body == IF text # <<>> /\ text[1] = "+" THEN Tail(text) ELSE text
      n    == BigFromDigits(StripLeadingZeros(DigitVals(body)))
  IN  IF body = <<>> \/ ~AllDigits(body) THEN [ok |-> FALSE]
      ELSE IF Len(StripLeadingZeros(DigitVals(body))) > 20 \/ BigLt(U64Max, n)
      THEN [ok |-> FALSE]
      ELSE [ok |-> TRUE, val |-> n]

\* u64::to_string
U64ToStringImpl(n) == IF n = <<>> THEN <<"0">> ELSE DigitChars(BigToDigits(n))

(***************************************************************************)
(* <f64 as Display>::fmt with no precision, which `{}` resolves to in fmt: *)
(* the shortest decimal that reads back as the same f64 (the closest one   *)
(* to it, if several), written without an exponent.                        *)
(*                                                                         *)
(* With u = a quarter of f's unit in the last place, f = F * u, and the    *)
(* decimals that read back as f are those from F - lo to F + 2 units       *)
(* (bounds included when f's significand is even).  A decimal with p       *)
(* fractional digits is c / 10^p; X and Y clear the denominators, so that  *)
(* c / 10^p is c * X and f is F * Y on one scale.                          *)
(***************************************************************************)
ShortestAtImpl(f, p) ==
  LET E    == BigBitLen(f.m) - 1 + f.e
      qe   == Max(E - (F64MantBits - 1), F64MinQuantum)
      a    == 2 - qe
      F    == BigShl(f.m, f.e - qe + 2)
      lo   == IF f.m = <<1>> /\ qe > F64MinQuantum THEN <<1>> ELSE <<2>>
      incl == f.e > qe \/ f.m = <<1>>
      X    == BigMul(BigPow2(Max(a, 0)), BigPow10(Max(-p, 0)))
      Y    == BigMul(BigPow2(Max(-a, 0)), BigPow10(Max(p, 0)))
      FY   == BigMul(F, Y)
      loB  == BigMul(BigSub(F, lo), Y)
      hiB  == BigMul(BigAdd(F, <<2>>), Y)
      c0   == BigDivMod(FY, X).q
      v0   == BigMul(c0, X)
      v1   == BigAdd(v0, X)
      in0  == IF incl THEN BigLe(loB, v0) ELSE BigLt(loB, v0)
      in1  == IF incl THEN BigLe(v1, hiB) ELSE BigLt(v1, hiB)
      near == BigCmp(BigSub(FY, v0), BigSub(v1, FY))
      up   == in1 /\ (~in0 \/ near > 0 \/ (near = 0 /\ BigIsOdd(c0)))
  IN  [found |-> in0 \/ in1,
       c     |-> IF up THEN BigAdd(c0, <<1>>) ELSE c0]

\* A decimal with p fractional digits that reads back as f is also one with
\* p + 1, so the least p is found by bisection between lo and hi, where hi
\* is known to do.
ShortestFromImpl(f, lo, hi) ==
  IF lo >= hi THEN [c |-> ShortestAt(f, hi).c, p |-> hi]
  ELSE LET mid == lo + (hi - lo) \div 2
       IN  IF ShortestAt(f, mid).found
           THEN ShortestFrom(f, lo, mid)
           ELSE ShortestFrom(f, mid + 1, hi)

\* The search starts above f's magnitude (f < 2^bits <= 10^(bits*31/100 + 1))
\* and ends where the decimals are closer together than a quarter of f's unit
\* in the last place, 2^(qe - 2).
ShortestDecimalImpl(f) ==
  LET bits == BigBitLen(f.m) + f.e
      qe   == Max(bits - F64MantBits, F64MinQuantum)
  IN  ShortestFrom(f, -((Max(bits, 0) * 31) \div 100 + 1),
                   (Max(2 - qe, 0) * 31) \div 100 + 1)

Zeros(n) == [i \in 1..n |-> "0"]

\* c / 10^p written out
PositionalImpl(c, p) ==
  LET ds == DigitChars(BigToDigits(c))
  IN  IF p <= 0 THEN ds \o Zeros(-p)
      ELSE IF Len(ds) > p
      THEN SubSeq(ds, 1, Len(ds) - p) \o <<".">> \o SubSeq(ds, Len(ds) - p + 1, Len(ds))
      ELSE <<"0", ".">> \o Zeros(p - Len(ds)) \o ds

DisplayF64Impl(f) ==
  IF f.cls = "nan" THEN <<"N", "a", "N">>
  ELSE (IF f.neg THEN <<"-">> ELSE <<>>) \o
       (IF f.cls = "inf" THEN <<"i", "n", "f">>
        ELSE IF f.m = <<>> THEN <<"0">>
        ELSE LET d == ShortestDecimal(f) IN Positional(d.c, d.p))

\* the arms
Lib(op, p1, p2, p3, p4) ==
  CASE op = "BigAdd" -> BigAddImpl(p1, p2)
    [] op = "BigSub" -> BigSubImpl(p1, p2)
    [] op = "BigMulSmall" -> BigMulSmallImpl(p1, p2, p3)
    [] op = "BigMulFrom" -> BigMulFromImpl(p1, p2, p3)
    [] op = "BigMul" -> BigMulImpl(p1, p2)
    [] op = "BigDivSmallFrom" -> BigDivSmallFromImpl(p1, p2, p3, p4)
    [] op = "BigDivSmall" -> BigDivSmallImpl(p1, p2)
    [] op = "BigModSmall" -> BigModSmallImpl(p1, p2)
    [] op = "BigShl" -> BigShlImpl(p1, p2)
    [] op = "BigShr" -> BigShrImpl(p1, p2)
    [] op = "BigDivLimb" -> BigDivLimbImpl(p1, p2)
    [] op = "BigDivModFrom" -> BigDivModFromImpl(p1, p2, p3, p4)
    [] op = "BigDivMod" -> BigDivModImpl(p1, p2)
    [] op = "BigPow10" -> BigPow10Impl(p1)
    [] op = "BigPow2" -> BigPow2Impl(p1)
    [] op = "BigFromDigits" -> BigFromDigitsImpl(p1)
    [] op = "BigToDigits" -> BigToDigitsImpl(p1)
    [] op = "MkF64" -> MkF64Impl(p1, p2, p3)
    [] op = "RatLog2" -> RatLog2Impl(p1, p2)
    [] op = "RoundHalfEven" -> RoundHalfEvenImpl(p1, p2)
    [] op = "RoundRat" -> RoundRatImpl(p1, p2, p3, p4)
    [] op = "F64Mul" -> F64MulImpl(p1, p2)
    [] op = "F64Div" -> F64DivImpl(p1, p2)
    [] op = "F64FromU64" -> F64FromU64Impl(p1)
    [] op = "F64Round" -> F64RoundImpl(p1)
    [] op = "AsU64" -> AsU64Impl(p1)
    [] op = "StripLeadingZeros" -> StripLeadingZerosImpl(p1)
    [] op = "SmallVal" -> SmallValImpl(p1, p2)
    [] op = "SmallFromDigits" -> SmallFromDigitsImpl(p1)
    [] op = "DecimalToF64" -> DecimalToF64Impl(p1, p2, p3)
    [] op = "ParseF64" -> ParseF64Impl(p1)
    [] op = "ParseU64" -> ParseU64Impl(p1)
    [] op = "U64ToString" -> U64ToStringImpl(p1)
    [] op = "ShortestAt" -> ShortestAtImpl(p1, p2)
    [] op = "ShortestFrom" -> ShortestFromImpl(p1, p2, p3)
    [] op = "ShortestDecimal" -> ShortestDecimalImpl(p1)
    [] op = "Positional" -> PositionalImpl(p1, p2)
    [] op = "DisplayF64" -> DisplayF64Impl(p1)

(***************************************************************************)
(* The crate.  BitcoinQuantity(u64) is a record with the one field sat.    *)
(***************************************************************************)
BitcoinQuantity(n) == [sat |-> n]

SATOSHI_PER_BITCOIN == 100000000

\* the literal 100_000_000.0
HundredMillion == F64FromU64(BigFromInt(SATOSHI_PER_BITCOIN))

\* from_satoshi with the amount narrowed to 32 bits on the way in
from_satoshi_u32(sats) ==
  BitcoinQuantity(BigSub(sats, BigShl(BigShr(sats, 32), 32)))

from_satoshi(sats) == BitcoinQuantity(sats)

\* from_bitcoin without the call of round: the cast truncates
from_bitcoin_truncating(btc) == BitcoinQuantity(AsU64(F64Mul(btc, HundredMillion)))

from_bitcoin(btc) == BitcoinQuantity(AsU64(F64Round(F64Mul(btc, HundredMillion))))

satoshi(self) == self.sat

bitcoin(self) == F64Div(F64FromU64(self.sat), HundredMillion)

\* add on an integer wider than u64: the sum is never reduced
add_unbounded(self, rhs, checks) ==
  [panic |-> FALSE, q |-> BitcoinQuantity(BigAdd(self.sat, rhs.sat))]

\* self.0 + rhs.0 on u64: with overflow checks (debug profile) an overflow
\* panics, without them (release profile) the sum wraps modulo 2^64
add(self, rhs, checks) ==
  LET sum == BigAdd(self.sat, rhs.sat)
  IN  IF BigLe(sum, U64Max) THEN [panic |-> FALSE, q |-> BitcoinQuantity(sum)]
      ELSE IF checks THEN [panic |-> TRUE, q |-> BitcoinQuantity(<<>>)]
      ELSE [panic |-> FALSE, q |-> BitcoinQuantity(BigSub(sum, BigPow2(U64Bits)))]

\* sub with its operands exchanged: rhs.0 - self.0
sub_swapped(self, rhs, checks) ==
  IF BigLe(self.sat, rhs.sat)
  THEN [panic |-> FALSE, q |-> BitcoinQuantity(BigSub(rhs.sat, self.sat))]
  ELSE IF checks THEN [panic |-> TRUE, q |-> BitcoinQuantity(<<>>)]
  ELSE [panic |-> FALSE,
        q |-> BitcoinQuantity(BigSub(BigAdd(rhs.sat, BigPow2(U64Bits)), self.sat))]

\* self.0 - rhs.0 on u64, likewise
sub(self, rhs, checks) ==
  IF BigLe(rhs.sat, self.sat)
  THEN [panic |-> FALSE, q |-> BitcoinQuantity(BigSub(self.sat, rhs.sat))]
  ELSE IF checks THEN [panic |-> TRUE, q |-> BitcoinQuantity(<<>>)]
  ELSE [panic |-> FALSE,
        q |-> BitcoinQuantity(BigSub(BigAdd(self.sat, BigPow2(U64Bits)), rhs.sat))]

\* fmt writing the satoshi count where the bitcoin value belongs
fmt_satoshi(self) == U64ToString(self.sat) \o <<" ", "B", "T", "C">>

\* write!(f, "{} BTC", self.bitcoin())
fmt(self) == DisplayF64(bitcoin(self)) \o <<" ", "B", "T", "C">>

\* from_str taking the parsed number for a satoshi count
from_str_unscaled(string) ==
  LET dec == ParseF64(string)
  IN  IF dec.ok THEN [ok |-> TRUE, q |-> BitcoinQuantity(AsU64(F64Round(dec.val)))]
      ELSE [ok |-> FALSE, q |-> BitcoinQuantity(<<>>)]

\* let dec = string.parse()?; Ok(Self::from_bitcoin(dec))
from_str(string) ==
  LET dec == ParseF64(string)
  IN  IF dec.ok THEN [ok |-> TRUE, q |-> from_bitcoin(dec.val)]
      ELSE [ok |-> FALSE, q |-> BitcoinQuantity(<<>>)]

(***************************************************************************)
(* serde.  A value of the serde data model is [tag, text]: tag "str" for a *)
(* string with the characters text, tag "u64" for a number with the digits *)
(* text.                                                                   *)
(***************************************************************************)
\* serialize through serialize_u64: a bare number
serialize_number(self) == [tag |-> "u64", text |-> U64ToString(self.sat)]

\* serializer.serialize_str(self.0.to_string().as_str())
serialize(self) == [tag |-> "str", text |-> U64ToString(self.sat)]

\* v.parse().map(BitcoinQuantity::from_satoshi).map_err(E::custom)
visit_str(v) ==
  LET n == ParseU64(v)
  IN  IF n.ok THEN [ok |-> TRUE, q |-> from_satoshi(n.val)]
      ELSE [ok |-> FALSE, q |-> BitcoinQuantity(<<>>)]

\* deserializer.deserialize_str(Visitor): the visitor has visit_str only, and
\* any other kind of value is an "invalid type" error
deserialize(value) ==
  IF value.tag = "str" THEN visit_str(value.text)
  ELSE [ok |-> FALSE, q |-> BitcoinQuantity(<<>>)]

(***************************************************************************)
(* Bounds of the check.                                                    *)
(***************************************************************************)
MaxSmall == 1       \* amounts are drawn this close to 0, 2^63 and 2^64 - 1
MaxLead == 3        \* leading digit of the amounts m * 10^k that are drawn
MaxMant == 25       \* decimal inputs k, k * 10^-8, k * 10^-9 for k up to this
MaxTextLen == 3     \* every text over Alphabet up to this length is drawn
MaxCalls == 3       \* calls in a run that starts with no quantity
MaxOps == 2         \* calls in a run that starts from two given quantities
MaxConv == 2        \* calls in a run that converts one input

(***************************************************************************)
(* Inputs.                                                                 *)
(***************************************************************************)
Txt(str) ==
  CASE str = "1.00000001" -> <<"1", ".", "0", "0", "0", "0", "0", "0", "0", "1">>
    [] str = "1234.00000100" ->
         <<"1", "2", "3", "4", ".", "0", "0", "0", "0", "0", "1", "0", "0">>
    [] str = "100" -> <<"1", "0", "0">>
    [] str = "0.000000495" -> <<"0", ".", "0", "0", "0", "0", "0", "0", "4", "9", "5">>
    [] str = "0.000000025" -> <<"0", ".", "0", "0", "0", "0", "0", "0", "0", "2", "5">>
    [] str = "184467440737.09551615" ->
         <<"1", "8", "4", "4", "6", "7", "4", "4", "0", "7", "3", "7", ".",
           "0", "9", "5", "5", "1", "6", "1", "5">>
    [] str = "30000000001" -> <<"3", "0", "0", "0", "0", "0", "0", "0", "0", "0", "1">>
    [] str = "184467440737" -> <<"1", "8", "4", "4", "6", "7", "4", "4", "0", "7", "3", "7">>
    [] str = "184467440738" -> <<"1", "8", "4", "4", "6", "7", "4", "4", "0", "7", "3", "8">>
    [] str = "18446744073709551615" ->
         <<"1", "8", "4", "4", "6", "7", "4", "4", "0", "7", "3", "7",
           "0", "9", "5", "5", "1", "6", "1", "5">>
    [] str = "18446744073709551616" ->
         <<"1", "8", "4", "4", "6", "7", "4", "4", "0", "7", "3", "7",
           "0", "9", "5", "5", "1", "6", "1", "6">>
    [] str = "100000000" -> <<"1", "0", "0", "0", "0", "0", "0", "0", "0">>
    [] str = "abc" -> <<"a", "b", "c">>
    [] str = "inf" -> <<"i", "n", "f">>
    [] str = "NaN" -> <<"N", "a", "N">>
    [] str = "-1" -> <<"-", "1">>
    [] str = "1e2" -> <<"1", "e", "2">>
    [] str = "1.5" -> <<"1", ".", "5">>
    [] str = "5" -> <<"5">>
    [] str = "x" -> <<"x">>

Alphabet == {"1", "5", ".", "-", "+", "e"}

RECURSIVE TextsOfLen(_)
TextsOfLen(n) ==
  IF n = 0 THEN {<<>>}
  ELSE {Append(t, c) : t \in TextsOfLen(n - 1), c \in Alphabet}

Texts ==
  UNION {TextsOfLen(n) : n \in 0..MaxTextLen}
    \cup {Txt(str) : str \in {"1.00000001", "1234.00000100", "100", "0.000000495",
                              "0.000000025", "184467440737.09551615",
                              "30000000001", "abc", "inf", "NaN", "-1", "1e2"}}

JsonValues ==
  {[tag |-> "str", text |-> t] :
     t \in Texts \cup {Txt(str) : str \in {"100000000", "18446744073709551615",
                                           "18446744073709551616"}}}
    \cup {[tag |-> "u64", text |-> Txt("100000000")]}

U64Inputs ==
  {BigFromInt(n) : n \in 0..MaxSmall}
    \cup {BigSub(U64Max, BigFromInt(n)) : n \in 0..MaxSmall}
    \cup {BigAdd(BigPow2(U64Bits - 1), BigFromInt(n)) : n \in 0..MaxSmall}
    \cup {BigSub(BigPow2(U64Bits - 1), BigFromInt(n + 1)) : n \in 0..MaxSmall}
    \cup {BigFromInt(SATOSHI_PER_BITCOIN)}

SatsInputs ==
  U64Inputs
    \cup {a \in {BigMulSmall(BigPow10(k), m, 0) : k \in 0..19, m \in 1..MaxLead} :
            BigLe(a, U64Max)}
    \cup {BigSub(BigPow10(k), <<1>>) : k \in 1..19}
    \cup {BigAdd(BigPow10(k), <<1>>) : k \in 1..19}
    \cup {BigFromDigits(DigitVals(t)) :
            t \in {<<"1", "2", "3", "4", "0", "0", "0", "0", "0", "1", "0", "0">>,
                   <<"9", "0", "0", "7", "1", "9", "9", "2", "5", "4", "7", "4",
                     "0", "9", "9", "3">>,
                   <<"6", "7", "1", "0", "8", "8", "6", "3", "9", "9", "9", "9",
                     "9", "9", "9", "9">>,
                   <<"6", "7", "1", "0", "8", "8", "6", "4", "0", "0", "0", "0",
                     "0", "0", "0", "2">>}}

Dec(k, x) == DecimalToF64(FALSE, BigToDigits(BigFromInt(k)), x)

F64Inputs ==
  {Dec(k, x) : k \in 0..MaxMant, x \in {0, -8, -9}}
    \cup {Dec(42, 0), Dec(100000001, -8), Dec(495, -9), Dec(21000000, 0),
          Dec(1, 30)}
    \cup {DecimalToF64(FALSE, DigitVals(Txt(str)), 0) :
            str \in {"30000000001", "184467440737", "184467440738"}}
    \cup {MkF64(FALSE, <<1>>, -27), MkF64(FALSE, <<3>>, -28), MkF64(FALSE, <<1>>, -30),
          MkF64(FALSE, <<5>>, -29), MkF64(FALSE, <<1>>, -1074)}
    \cup {MkF64(TRUE, <<1>>, 0), MkF64(TRUE, <<1>>, -30), F64Zero(TRUE),
          F64NaN, F64Inf(FALSE), F64Inf(TRUE)}

NoInput ==
  [kind |-> "none", sats |-> <<>>, btc |-> F64Zero(FALSE), text |-> <<>>,
   json |-> [tag |-> "str", text |-> <<>>]]

ConvInputs ==
  {[NoInput EXCEPT !.kind = "sats", !.sats = n] : n \in SatsInputs}
    \cup {[NoInput EXCEPT !.kind = "btc", !.btc = x] : x \in F64Inputs}
    \cup {[NoInput EXCEPT !.kind = "text", !.text = t] : t \in Texts}
    \cup {[NoInput EXCEPT !.kind = "json", !.json = v] : v \in JsonValues}

AnyInputs ==
  {[kind |-> "any", sats |-> n, btc |-> Dec(1, 0), text |-> t,
    json |-> [tag |-> "str", text |-> Txt("5")]] :
     n \in {<<1>>, U64Max}, t \in {Txt("1.5"), Txt("x")}}

(***************************************************************************)
(* The state of a run.                                                     *)
(***************************************************************************)
VARIABLES
  overflow_checks,  \* the build: TRUE checks integer overflow (debug profile),
                    \* FALSE wraps (release profile)
  input,            \* the arguments the run hands to the constructors
  vars,             \* the quantities bound so far, each with the call that made it
  last,             \* the last call: its operands, outcome and returned value
  fuel              \* the number of calls the run may still make

vars_all == <<overflow_checks, input, vars, last, fuel>>

Var(q, op, lhs, rhs) == [q |-> q, op |-> op, lhs |-> lhs, rhs |-> rhs]

\* a call that returns no u64, f64, text or serde value
NoRes == [u |-> <<>>, f |-> F64Zero(FALSE), s |-> <<>>, tag |-> ""]

Call(op, lhs, rhs, outcome, res) ==
  [op |-> op, lhs |-> lhs, rhs |-> rhs, outcome |-> outcome,
   u |-> res.u, f |-> res.f, s |-> res.s, tag |-> res.tag]

NoCall == Call("none", 0, 0, "none", NoRes)

\* a returned quantity is a new value under a new name: the operands are
\* passed by value (the type is Copy) and stay as they were
Returned(vs, v) == Append(vs, v)

\* a panic ends the run
Live == fuel > 0 /\ last.outcome # "panic"

FromSatoshi ==
  /\ Live
  /\ input.kind \in {"sats", "any"}
  /\ vars' = Returned(vars, Var(from_satoshi(input.sats), "from_satoshi", 0, 0))
  /\ last' = Call("from_satoshi", 0, 0, "ok", NoRes)
  /\ fuel' = fuel - 1
  /\ UNCHANGED <<overflow_checks, input>>

FromBitcoin ==
  /\ Live
  /\ input.kind \in {"btc", "any"}
  /\ vars' = Returned(vars, Var(from_bitcoin(input.btc), "from_bitcoin", 0, 0))
  /\ last' = Call("from_bitcoin", 0, 0, "ok", NoRes)
  /\ fuel' = fuel - 1
  /\ UNCHANGED <<overflow_checks, input>>

FromStr ==
  /\ Live
  /\ input.kind \in {"text", "any"}
  /\ LET r == from_str(input.text)
     IN  IF r.ok
         THEN /\ vars' = Returned(vars, Var(r.q, "from_str", 0, 0))
              /\ last' = Call("from_str", 0, 0, "ok", NoRes)
         ELSE /\ vars' = vars
              /\ last' = Call("from_str", 0, 0, "err", NoRes)
  /\ fuel' = fuel - 1
  /\ UNCHANGED <<overflow_checks, input>>

Satoshi(i) ==
  /\ Live
  /\ last' = Call("satoshi", i, 0, "ok", [NoRes EXCEPT !.u = satoshi(vars[i].q)])
  /\ fuel' = fuel - 1
  /\ UNCHANGED <<overflow_checks, input, vars>>

Bitcoin(i) ==
  /\ Live
  /\ last' = Call("bitcoin", i, 0, "ok", [NoRes EXCEPT !.f = bitcoin(vars[i].q)])
  /\ fuel' = fuel - 1
  /\ UNCHANGED <<overflow_checks, input, vars>>

Add(i, j) ==
  /\ Live
  /\ LET r == add(vars[i].q, vars[j].q, overflow_checks)
     IN  IF r.panic
         THEN /\ vars' = vars
              /\ last' = Call("add", i, j, "panic", NoRes)
         ELSE /\ vars' = Returned(vars, Var(r.q, "add", i, j))
              /\ last' = Call("add", i, j, "ok", NoRes)
  /\ fuel' = fuel - 1
  /\ UNCHANGED <<overflow_checks, input>>

Sub(i, j) ==
  /\ Live
  /\ LET r == sub(vars[i].q, vars[j].q, overflow_checks)
     IN  IF r.panic
         THEN /\ vars' = vars
              /\ last' = Call("sub", i, j, "panic", NoRes)
         ELSE /\ vars' = Returned(vars, Var(r.q, "sub", i, j))
              /\ last' = Call("sub", i, j, "ok", NoRes)
  /\ fuel' = fuel - 1
  /\ UNCHANGED <<overflow_checks, input>>

Fmt(i) ==
  /\ Live
  /\ last' = Call("fmt", i, 0, "ok", [NoRes EXCEPT !.s = fmt(vars[i].q)])
  /\ fuel' = fuel - 1
  /\ UNCHANGED <<overflow_checks, input, vars>>

Serialize(i) ==
  /\ Live
  /\ LET v == serialize(vars[i].q)
     IN  last' = Call("serialize", i, 0, "ok",
                      [NoRes EXCEPT !.s = v.text, !.tag = v.tag])
  /\ fuel' = fuel - 1
  /\ UNCHANGED <<overflow_checks, input, vars>>

\* deserialize(value); from names the quantity value was serialized from, 0
\* when value is an input
DeserializeValue(value, from) ==
  /\ LET r == deserialize(value)
     IN  IF r.ok
         THEN /\ vars' = Returned(vars, Var(r.q, "deserialize", from, 0))
              /\ last' = Call("deserialize", from, 0, "ok", NoRes)
         ELSE /\ vars' = vars
              /\ last' = Call("deserialize", from, 0, "err", NoRes)
  /\ fuel' = fuel - 1
  /\ UNCHANGED <<overflow_checks, input>>

\* deserialize what the last call serialized
Deserialize ==
  /\ Live
  /\ last.op = "serialize"
  /\ DeserializeValue([tag |-> last.tag, text |-> last.s], last.lhs)

\* deserialize a value from outside
DeserializeInput ==
  /\ Live
  /\ input.kind \in {"json", "any"}
  /\ DeserializeValue(input.json, 0)

(***************************************************************************)
(* Runs that start with no quantity and may call everything.               *)
(***************************************************************************)
Init ==
  /\ overflow_checks \in BOOLEAN
  /\ input \in AnyInputs
  /\ vars = <<>>
  /\ last = NoCall
  /\ fuel = MaxCalls

Next ==
  \/ FromSatoshi
  \/ FromBitcoin
  \/ FromStr
  \/ DeserializeInput
  \/ Deserialize
  \/ \E i \in 1..Len(vars) : Satoshi(i)
  \/ \E i \in 1..Len(vars) : Bitcoin(i)
  \/ \E i \in 1..Len(vars) : Fmt(i)
  \/ \E i \in 1..Len(vars) : Serialize(i)
  \/ \E i, j \in 1..Len(vars) : Add(i, j)
  \/ \E i, j \in 1..Len(vars) : Sub(i, j)

Spec == Init /\ [][Next]_vars_all

(***************************************************************************)
(* Runs over two given quantities a and b: the integer arithmetic and the  *)
(* serde round trip.                                                       *)
(***************************************************************************)
InitArith ==
  /\ overflow_checks \in BOOLEAN
  /\ input = NoInput
  /\ \E a, b \in U64Inputs :
       vars = <<Var(BitcoinQuantity(a), "given", 0, 0),
                Var(BitcoinQuantity(b), "given", 0, 0)>>
  /\ last = NoCall
  /\ fuel = MaxOps

NextArith ==
  \/ \E i, j \in 1..Len(vars) : Add(i, j)
  \/ \E i, j \in 1..Len(vars) : Sub(i, j)
  \/ \E i \in 1..Len(vars) : Satoshi(i)
  \/ \E i \in 1..Len(vars) : Serialize(i)
  \/ Deserialize

SpecArith == InitArith /\ [][NextArith]_vars_all

(***************************************************************************)
(* Runs that convert one input: a constructor, then one more call.         *)
(***************************************************************************)
InitConv ==
  /\ overflow_checks \in BOOLEAN
  /\ input \in ConvInputs
  /\ vars = <<>>
  /\ last = NoCall
  /\ fuel = MaxConv

NextConv ==
  \/ FromSatoshi
  \/ FromBitcoin
  \/ FromStr
  \/ DeserializeInput
  \/ \E i \in 1..Len(vars) : Satoshi(i)
  \/ \E i \in 1..Len(vars) : Bitcoin(i)
  \/ \E i \in 1..Len(vars) : Fmt(i)
  \/ \E i \in 1..Len(vars) : Serialize(i)

SpecConv == InitConv /\ [][NextConv]_vars_all

(***************************************************************************)
(* The claims.  Amount(k) is the amount of the k-th quantity of the run;   *)
(* the operands and the result of the last call are read off last and the  *)
(* record of the call that made each quantity.                             *)
(***************************************************************************)
Amount(k) == vars[k].q.sat

\* a natural number in limbs, at most u64::MAX
IsU64(n) ==
  /\ \A i \in 1..Len(n) : n[i] \in 0..(Base - 1)
  /\ (n = <<>> \/ n[Len(n)] # 0)
  /\ BigLe(n, U64Max)

(***************************************************************************)
(* Integer arithmetic and serde, under SpecArith.                          *)
(***************************************************************************)
\* C2: add(a, b) returns a quantity of exactly a.amount + b.amount when the
\* sum is at most 2^64 - 1, and fails loudly (panics) when the sum is larger,
\* never returning a wrapped amount.
C2_AddIsExactOrFails ==
  last.op = "add" =>
    LET sum == BigAdd(Amount(last.lhs), Amount(last.rhs))
    IN  IF BigLe(sum, U64Max)
        THEN last.outcome = "ok" /\ Amount(Len(vars)) = sum
        ELSE last.outcome = "panic"

\* C3: subtract(a, b) returns a quantity of exactly a.amount - b.amount when
\* b.amount <= a.amount, and fails explicitly (panics) when b.amount >
\* a.amount, never returning a wrapped amount.
C3_SubIsExactOrFails ==
  last.op = "sub" =>
    IF BigLe(Amount(last.rhs), Amount(last.lhs))
    THEN /\ last.outcome = "ok"
         /\ BigAdd(Amount(Len(vars)), Amount(last.rhs)) = Amount(last.lhs)
    ELSE last.outcome = "panic"

\* the last call subtracted, from a sum c = add(a, b), a quantity equal to b
SubOfSum ==
  /\ last.op = "sub"
  /\ vars[last.lhs].op = "add"
  /\ vars[vars[last.lhs].rhs].q = vars[last.rhs].q

\* a, the left operand of the sum the last call subtracted from
SumLhs == vars[last.lhs].lhs

\* C4 as amended: for all quantities a and b, add(a, b) returns whenever
\* a.amount + b.amount <= 2^64 - 1, and whenever add(a, b) returns,
\* subtract(add(a, b), b) returns a quantity equal to a (whether or not
\* a.satoshi() >= b.satoshi()).
C4_SubOfAddGivesBack ==
  /\ (last.op = "add" /\ BigLe(BigAdd(Amount(last.lhs), Amount(last.rhs)), U64Max)
        => last.outcome = "ok")
  /\ (SubOfSum => last.outcome = "ok" /\ vars[Len(vars)].q = vars[SumLhs].q)

\* C4 as stated: for all a and b with a.satoshi() >= b.satoshi(), add(a, b)
\* returns a sum and subtract(add(a, b), b) == a.
C4_AsStated ==
  /\ (last.op = "add" /\ BigLe(Amount(last.rhs), Amount(last.lhs))
        => last.outcome = "ok")
  /\ (SubOfSum /\ BigLe(Amount(last.rhs), Amount(SumLhs))
        => last.outcome = "ok" /\ vars[Len(vars)].q = vars[SumLhs].q)

\* C4: 1 + (2^64 - 1) wrapped to 0 in a build without overflow checks, and
\* subtracting 2^64 - 1 again gave back 1, with a < b
C4_Witness ==
  /\ SubOfSum
  /\ last.outcome = "ok"
  /\ Len(vars) = 4
  /\ Amount(SumLhs) = <<1>>
  /\ Amount(last.rhs) = U64Max
  /\ Amount(last.lhs) = <<>>
  /\ Amount(4) = <<1>>

\* C8: serialize(q) emits a string, never a bare number, holding the decimal
\* digits of q.satoshi() (100_000_000 gives "100000000"), and
\* deserialize(serialize(q)) succeeds and equals q.
C8_SerdeRoundTrip ==
  /\ (last.op = "serialize" =>
        /\ last.tag = "str"
        /\ last.s # <<>> /\ AllDigits(last.s)
        /\ (Len(last.s) > 1 => last.s[1] # "0")
        /\ BigFromDigits(DigitVals(last.s)) = Amount(last.lhs)
        /\ (Amount(last.lhs) = BigFromInt(SATOSHI_PER_BITCOIN)
              => last.s = <<"1", "0", "0", "0", "0", "0", "0", "0", "0">>))
  /\ (last.op = "deserialize" /\ last.lhs # 0 =>
        /\ last.outcome = "ok"
        /\ vars[Len(vars)].q = vars[last.lhs].q)

\* C8: the string "18446744073709551615" serialized from 2^64 - 1 was read
\* back as a quantity of 2^64 - 1
C8_Witness ==
  /\ last.op = "deserialize"
  /\ last.outcome = "ok"
  /\ last.lhs # 0
  /\ Amount(last.lhs) = U64Max
  /\ Len(vars) = 3
  /\ Amount(3) = U64Max

(***************************************************************************)
(* Conversions, under SpecConv.                                            *)
(***************************************************************************)
\* C1: for every n in 0..2^64-1, from_satoshi(n) does not fail and
\* from_satoshi(n).satoshi() == n.
C1_SatoshiRoundTrip ==
  /\ (last.op = "from_satoshi" => last.outcome = "ok" /\ vars # <<>>)
  /\ (last.op = "satoshi" /\ vars[last.lhs].op = "from_satoshi"
        => last.outcome = "ok" /\ last.u = input.sats)

\* C1: satoshi() of from_satoshi(2^64 - 1) returned 2^64 - 1
C1_Witness ==
  /\ last.op = "satoshi"
  /\ vars[last.lhs].op = "from_satoshi"
  /\ input.sats = U64Max
  /\ last.u = U64Max

\* x is a finite f64 that is not negative
NonNegative(x) == x.cls = "finite" /\ (~x.neg \/ x.m = <<>>)

\* the numerator of x * 10^8 = ExactSats(x) * 2^x.e
ExactSats(x) == BigMul(x.m, BigFromInt(SATOSHI_PER_BITCOIN))

\* x * 10^8 <= 2^64 - 1
ProductInRange(x) ==
  IF x.e >= 0 THEN BigLe(BigShl(ExactSats(x), x.e), U64Max)
  ELSE BigLe(ExactSats(x), BigShl(U64Max, -x.e))

\* the integer nearest to k * 2^q, halfway cases away from zero
NearestInteger(k, q) ==
  IF q >= 0 THEN BigShl(k, q)
  ELSE IF BigBit(k, -q - 1) = 1 THEN BigAdd(BigShr(k, -q), <<1>>)
  ELSE BigShr(k, -q)

\* x * 10^8 kept to 53 significant bits, the bits below decided to nearest,
\* ties to even: [k, q] for k * 2^q  (a product below 2^-1022 has fewer than
\* 53 bits as it is, x being a multiple of 2^-1074)
ProductIn53Bits(x) ==
  LET n == ExactSats(x)
      s == BigBitLen(n) - F64MantBits
  IN  IF s <= 0 THEN [k |-> n, q |-> x.e]
      ELSE LET t  == BigShr(n, s)
               up == /\ BigBit(n, s - 1) = 1
                     /\ (~BigLowZero(n, s - 1) \/ BigIsOdd(t))
           IN  [k |-> IF up THEN BigAdd(t, <<1>>) ELSE t, q |-> x.e + s]

AtMostU64Max(n) == IF BigLe(n, U64Max) THEN n ELSE U64Max

\* C5 as amended: for every non-negative x with x * 10^8 <= 2^64-1,
\* from_bitcoin(x).satoshi() is the f64 product x * 10^8, which is the exact
\* product rounded to 53 significant bits (ties to even), rounded to the
\* nearest integer with ties away from zero and capped at 2^64-1; when the
\* exact product has at most 53 significant bits this is x * 10^8 itself
\* rounded to the nearest integer, ties away from zero: 1.0 gives 100_000_000
\* and 0.000000495 gives 50.
C5_FromBitcoinRoundsF64Product ==
  \A k \in 1..Len(vars) :
    vars[k].op = "from_bitcoin" /\ NonNegative(input.btc) /\ ProductInRange(input.btc) =>
      LET x == input.btc
          p == ProductIn53Bits(x)
      IN  /\ Amount(k) = AtMostU64Max(NearestInteger(p.k, p.q))
          /\ (BigBitLen(ExactSats(x)) <= F64MantBits
                => Amount(k) = NearestInteger(ExactSats(x), x.e))
          /\ (x = [cls |-> "finite", neg |-> FALSE, m |-> <<1>>, e |-> 0]
                => Amount(k) = BigFromInt(SATOSHI_PER_BITCOIN))
          /\ (x = Dec(495, -9) => Amount(k) = BigFromInt(50))

\* C5 as stated: for every non-negative x with x * 10^8 <= 2^64-1,
\* from_bitcoin(x).satoshi() is x * 10^8 rounded to the nearest integer, ties
\* away from zero.
C5_AsStated ==
  \A k \in 1..Len(vars) :
    vars[k].op = "from_bitcoin" /\ NonNegative(input.btc) /\ ProductInRange(input.btc) =>
      Amount(k) = NearestInteger(ExactSats(input.btc), input.btc.e)

\* C5: from_bitcoin(0.000000495) made a quantity of 50
C5_Witness ==
  /\ Len(vars) = 1
  /\ vars[1].op = "from_bitcoin"
  /\ input.btc = Dec(495, -9)
  /\ Amount(1) = BigFromInt(50)

\* The decimal numbers of the claims: an optional sign, digits, and
\* optionally a point and more digits.
HasSign(t) == t # <<>> /\ t[1] \in {"+", "-"}

Unsigned(t) == IF HasSign(t) THEN Tail(t) ELSE t

PointAt(t) == IndexOf(Unsigned(t), {"."})

IntegerPart(t) ==
  IF PointAt(t) = 0 THEN Unsigned(t) ELSE SubSeq(Unsigned(t), 1, PointAt(t) - 1)

FractionPart(t) ==
  IF PointAt(t) = 0 THEN <<>>
  ELSE SubSeq(Unsigned(t), PointAt(t) + 1, Len(Unsigned(t)))

IsDecimalText(t) ==
  /\ IntegerPart(t) # <<>> /\ AllDigits(IntegerPart(t))
  /\ (PointAt(t) # 0 => FractionPart(t) # <<>> /\ AllDigits(FractionPart(t)))

\* the same with the digits before or after the point left out (".5", "1.")
IsLooseDecimalText(t) ==
  /\ AllDigits(IntegerPart(t)) /\ AllDigits(FractionPart(t))
  /\ Len(IntegerPart(t)) + Len(FractionPart(t)) > 0

\* the f64 nearest to the number the decimal text t denotes
DenotedF64(t) ==
  DecimalToF64(t[1] = "-", DigitVals(IntegerPart(t) \o FractionPart(t)),
               -Len(FractionPart(t)))

\* C6: for every text that is a syntactically valid decimal number denoting
\* x, parse(text) succeeds and equals from_bitcoin(x); parse("1.00000001")
\* is from_bitcoin(1.00000001), 100_000_001 smallest units.
C6_ParseIsFromBitcoin ==
  input.kind = "text" /\ IsDecimalText(input.text) =>
    /\ (last.op = "from_str" => last.outcome = "ok" /\ vars # <<>>)
    /\ \A k \in 1..Len(vars) :
         /\ vars[k].q = from_bitcoin(DenotedF64(input.text))
         /\ (input.text = Txt("1.00000001") => Amount(k) = BigFromInt(100000001))

\* C6: parse("1.00000001") made a quantity of 100_000_001
C6_Witness ==
  /\ input.text = Txt("1.00000001")
  /\ Len(vars) = 1
  /\ vars[1].op = "from_str"
  /\ Amount(1) = BigFromInt(100000001)

\* C7: for every text that is not a syntactically valid decimal number
\* (optional sign, integer digits, optional fractional part, no exponent),
\* parse(text) fails, and no quantity is produced.
C7_ParseRejectsNonDecimal ==
  input.kind = "text" /\ ~IsLooseDecimalText(input.text) /\ last.op = "from_str" =>
    last.outcome = "err" /\ vars = <<>>

\* the integer n * 10^-8 written out in full, without trailing zeros and
\* without a point when nothing follows it
ExactDecimal(n) ==
  LET qr    == BigDivMod(n, BigFromInt(SATOSHI_PER_BITCOIN))
      whole == IF qr.q = <<>> THEN <<0>> ELSE BigToDigits(qr.q)
      fd    == BigToDigits(qr.r)
      f8    == [i \in 1..(8 - Len(fd)) |-> 0] \o fd
      keep  == MaxOf({i \in 1..8 : f8[i] # 0})
  IN  IF qr.r = <<>> THEN DigitChars(whole)
      ELSE DigitChars(whole) \o <<".">> \o DigitChars(SubSeq(f8, 1, keep))

\* 2^26 * 10^8: from 2^26 whole units on, neighbouring f64 values are more
\* than 10^-8 apart
ExactlyShownBelow == BigMul(BigPow2(26), BigFromInt(SATOSHI_PER_BITCOIN))

\* C9 as amended: for every quantity q with q.satoshi() < 2^26 * 10^8
\* (67_108_864 whole units), to_string(q) is the decimal rendering of
\* q.satoshi() / 10^8 followed by a space and "BTC", with the trailing zeros
\* of the fraction dropped and no decimal point for a multiple of 10^8
\* (200_000_000 gives "2 BTC", parse("1234.00000100") gives
\* "1234.000001 BTC").
C9_DisplayIsExactBelowBound ==
  last.op = "fmt" /\ BigLt(Amount(last.lhs), ExactlyShownBelow) =>
    /\ last.s = ExactDecimal(Amount(last.lhs)) \o <<" ", "B", "T", "C">>
    /\ (Amount(last.lhs) = BigFromInt(200000000) => last.s = <<"2", " ", "B", "T", "C">>)
    /\ (input.text = Txt("1234.00000100") =>
          last.s = <<"1", "2", "3", "4", ".", "0", "0", "0", "0", "0", "1",
                     " ", "B", "T", "C">>)

\* C9 as stated: for every quantity q, to_string(q) is the decimal rendering
\* of q.satoshi() / 10^8 followed by a space and "BTC".
C9_AsStated ==
  last.op = "fmt" =>
    last.s = ExactDecimal(Amount(last.lhs)) \o <<" ", "B", "T", "C">>

\* C9: to_string(parse("1234.00000100")) returned "1234.000001 BTC"
C9_Witness ==
  /\ last.op = "fmt"
  /\ input.text = Txt("1234.00000100")
  /\ vars[last.lhs].op = "from_str"
  /\ last.s = <<"1", "2", "3", "4", ".", "0", "0", "0", "0", "0", "1",
                " ", "B", "T", "C">>

(***************************************************************************)
(* The quantities of a run, under Spec.                                    *)
(***************************************************************************)
\* C10: after any sequence of constructions, additions and subtractions
\* every existing quantity's amount is an integer in 0..2^64-1, and no
\* operation changes the amount of a quantity it was given: each call leaves
\* every quantity that exists as it is and at most returns a new one.
C10_AmountsInRangeAndKept ==
  /\ [](\A k \in 1..Len(vars) : IsU64(Amount(k)))
  /\ [][/\ Len(vars') \in {Len(vars), Len(vars) + 1}
        /\ \A k \in 1..Len(vars) : vars'[k].q = vars[k].q]_vars_all

\* C10: in a build without overflow checks (2^64 - 1) + (2^64 - 1) returned
\* a third quantity, of 2^64 - 2, and both operands are still 2^64 - 1
C10_Witness ==
  /\ ~overflow_checks
  /\ Len(vars) = 3
  /\ vars[3].op = "add"
  /\ Amount(1) = U64Max
  /\ Amount(2) = U64Max
  /\ Amount(3) = BigSub(U64Max, <<1>>)

=============================================================================
